---- MODULE Spec2Model ----
(***************************************************************************)
(* Model of the mega-optimizer batch pipeline                              *)
(* (src/bot-system/mega-optimizer/src).                                    *)
(*                                                                         *)
(* main() builds the provider client, obtains the repository list and     *)
(* runs analyze_and_optimize for each repository in turn, one repository  *)
(* at a time.  analyze_and_optimize is modelled one await point per        *)
(* action: detect, the three gated analyzers, synthesis, submission.       *)
(*                                                                         *)
(* Every function that takes (owner, repo) or the provider client returns  *)
(* an anyhow::Result and is consumed with `?`; its outcome is an           *)
(* environment choice over its declared return type: Ok with any value of *)
(* the type, or Err.  The synthesizer (optimizers/) takes no repository   *)
(* and is modelled exactly as written.                                     *)
(*                                                                         *)
(* The rust-ai-bridge functions (src/bot-system/rust-ai-bridge/src/lib.rs) *)
(* are modelled as calls from Python over f32 values with f32 rounding.    *)
(***************************************************************************)
EXTENDS Naturals, Sequences, FiniteSets

\* ---------------------------------------------------------------- bounds
MaxRepos == 3      \* longest repository list returned by list_repos
MaxResults == 3    \* longest AnalysisResult sequence given to the synthesizer alone
MaxOpts == 3       \* longest Optimization sequence given to the submission step alone
MaxVec == 3        \* longest input vector of fast_inference_rust
MaxDim == 2        \* largest number of rows or columns of a fast_matrix_mult argument

VARIABLES
    mainPc,            \* position of main(): "new","repos","loop","call","done","fatal"
    dry_run,           \* Args.dry_run
    argRepo,           \* Args.repo is Some(..)
    repos,             \* the Vec<String> iterated by main (repository ids)
    idx,               \* number of repositories taken from the iterator so far
    exitCode,          \* <<>> while running, <<0>> for Ok(()), <<1>> for Err
    pc,                \* position of analyze_and_optimize for the current repository
    tech_stack,        \* Option<TechStack> local: <<>> or <<ts>>
    analysis_results,  \* local Vec<AnalysisResult>
    optimizations,     \* local Vec<Optimization>
    result,            \* value returned by analyze_and_optimize: "none","Ok","Err"
    outcome,           \* per repository: the status line logged by main
    prCalls,           \* per repository: number of create_optimization_pr invocations
    raised,            \* per repository: the stage whose call returned Err, or "none"
    startupErr,        \* the startup call of main that returned Err, or "none"
    py_call,           \* rust-ai-bridge: the function called from Python and its arguments
    py_ret             \* rust-ai-bridge: <<>> before the call returns, then <<PyResult>>

vars == <<mainPc, dry_run, argRepo, repos, idx, exitCode, pc, tech_stack,
          analysis_results, optimizations, result, outcome, prCalls, raised,
          startupErr, py_call, py_ret>>

\* the bridge crate shares nothing with the optimizer binary
bridgeVars == <<py_call, py_ret>>
NoCall == [fn |-> "none", a |-> <<>>, b |-> <<>>]

mainVars == <<mainPc, dry_run, argRepo, repos, idx, exitCode, startupErr, bridgeVars>>
localVars == <<tech_stack, analysis_results, optimizations>>

\* ------------------------------------------------------------ data model
TechStack == [has_rust: BOOLEAN, has_python: BOOLEAN, has_javascript: BOOLEAN,
              has_docker: BOOLEAN, has_kubernetes: BOOLEAN]

rust_analyzer_analyze ==
    [category |-> "Rust Performance",
     findings |-> <<"High", "Medium", "Medium">>,
     tech_stack |-> "rust"]

python_analyzer_analyze ==
    [category |-> "Python/AI Performance",
     findings |-> <<"High", "High", "High", "Medium", "Medium", "Medium">>,
     tech_stack |-> "python"]

docker_analyzer_analyze ==
    [category |-> "Docker Optimization",
     findings |-> <<"Critical", "High", "Medium">>,
     tech_stack |-> "docker"]

dependency_analyzer_analyze ==
    [category |-> "Dependency Management",
     findings |-> <<"Medium">>,
     tech_stack |-> "general"]

AnalysisResult ==
    {rust_analyzer_analyze, python_analyzer_analyze,
     docker_analyzer_analyze, dependency_analyzer_analyze}

Optimization(c, d, i) ==
    [category |-> c, description |-> d, file_changes |-> <<>>, impact |-> i]

\* ----------------------------------------------------------- synthesizer
python_optimizer_generate_optimizations ==
    << Optimization("FastAPI Multi-Worker",
                    "Configure Uvicorn with multiple workers and optimized event loop",
                    "High"),
       Optimization("PyTorch JIT",
                    "Enable JIT compilation and model quantization",
                    "High") >>

rust_optimizer_generate_optimizations ==
    << Optimization("Rust LTO",
                    "Enable Link Time Optimization for better performance",
                    "Medium") >>

generate_redis_caching ==
    << Optimization("Redis Caching",
                    "Add Redis caching layer for frequent queries",
                    "High") >>

\* the match with its default arm falling into the "rust" arm
MatchTechStack_fallthrough(r) ==
    IF r.tech_stack = "python" THEN python_optimizer_generate_optimizations
    ELSE rust_optimizer_generate_optimizations

\* the match made on result.category instead of result.tech_stack
MatchTechStack_byCategory(r) ==
    IF r.category = "Python/AI Performance" THEN python_optimizer_generate_optimizations
    ELSE IF r.category = "Rust Performance" THEN rust_optimizer_generate_optimizations
    ELSE <<>>

\* the match on result.tech_stack inside the for loop
MatchTechStack(r) ==
    IF r.tech_stack = "python" THEN python_optimizer_generate_optimizations
    ELSE IF r.tech_stack = "rust" THEN rust_optimizer_generate_optimizations
    ELSE <<>>

\* the for loop: optimizations.extend(opts) for each result, in order
RECURSIVE ForEachResult(_, _, _)
ForEachResult(results, i, acc) ==
    IF i > Len(results) THEN acc
    ELSE ForEachResult(results, i + 1, acc \o MatchTechStack(results[i]))

generate_optimizations_cacheFirst(results) ==
    generate_redis_caching \o ForEachResult(results, 1, <<>>)

generate_optimizations_noCache(results) ==
    ForEachResult(results, 1, <<>>)

generate_optimizations(results) ==
    ForEachResult(results, 1, <<>>) \o generate_redis_caching

\* ------------------------------------------------- main(): startup, loop
Init ==
    /\ mainPc = "new"
    /\ dry_run \in BOOLEAN
    /\ argRepo \in BOOLEAN
    /\ repos = <<>>
    /\ idx = 0
    /\ exitCode = <<>>
    /\ pc = "idle"
    /\ tech_stack = <<>>
    /\ analysis_results = <<>>
    /\ optimizations = <<>>
    /\ result = "none"
    /\ outcome = <<>>
    /\ prCalls = <<>>
    /\ raised = <<>>
    /\ startupErr = "none"
    /\ py_call = NoCall
    /\ py_ret = <<>>

\* the Err result of GitHubClient::new is dropped and main carries on
NewClient_ignoreErr ==
    /\ mainPc = "new"
    /\ mainPc' = "repos"
    /\ exitCode' = exitCode
    /\ startupErr' \in {"none", "client"}
    /\ UNCHANGED <<bridgeVars, dry_run, argRepo, repos, idx, pc, localVars, result,
                   outcome, prCalls, raised>>

\* GitHubClient::new(token)?
NewClient ==
    /\ mainPc = "new"
    /\ \/ /\ mainPc' = "repos"
          /\ exitCode' = exitCode
          /\ startupErr' = startupErr
       \/ /\ mainPc' = "fatal"
          /\ exitCode' = <<1>>
          /\ startupErr' = "client"
    /\ UNCHANGED <<bridgeVars, dry_run, argRepo, repos, idx, pc, localVars, result,
                   outcome, prCalls, raised>>

SetRepos(list) ==
    /\ repos' = list
    /\ outcome' = [i \in 1..Len(list) |-> "Pending"]
    /\ prCalls' = [i \in 1..Len(list) |-> 0]
    /\ raised' = [i \in 1..Len(list) |-> "none"]

\* let repos = if let Some(repo_name) = args.repo {..} else { list_repos().await? }
\* A listing names each repository of the owner once: repository i of the
\* list is repository id i.
GetRepos ==
    /\ mainPc = "repos"
    /\ \/ /\ argRepo
          /\ SetRepos(<<1>>)
          /\ mainPc' = "loop"
          /\ exitCode' = exitCode
          /\ startupErr' = startupErr
       \/ /\ ~argRepo
          /\ \E n \in 0..MaxRepos : SetRepos([i \in 1..n |-> i])
          /\ mainPc' = "loop"
          /\ exitCode' = exitCode
          /\ startupErr' = startupErr
       \/ /\ ~argRepo
          /\ mainPc' = "fatal"
          /\ exitCode' = <<1>>
          /\ startupErr' = "list"
          /\ UNCHANGED <<repos, outcome, prCalls, raised>>
    /\ UNCHANGED <<bridgeVars, dry_run, argRepo, idx, pc, localVars, result>>

\* the iterator advanced twice per round: every other repository is skipped
LoopNext_skip ==
    /\ mainPc = "loop"
    /\ idx < Len(repos)
    /\ idx' = IF idx + 2 <= Len(repos) THEN idx + 2 ELSE idx + 1
    /\ mainPc' = "call"
    /\ pc' = "detect"
    /\ UNCHANGED <<bridgeVars, startupErr, dry_run, argRepo, repos, exitCode, localVars, result,
                   outcome, prCalls, raised>>

\* for repo_name in repos: the iterator yields the next repository
LoopNext ==
    /\ mainPc = "loop"
    /\ idx < Len(repos)
    /\ idx' = idx + 1
    /\ mainPc' = "call"
    /\ pc' = "detect"
    /\ UNCHANGED <<bridgeVars, startupErr, dry_run, argRepo, repos, exitCode, localVars, result,
                   outcome, prCalls, raised>>

\* the iterator is exhausted: main returns Ok(())
LoopExit ==
    /\ mainPc = "loop"
    /\ idx >= Len(repos)
    /\ mainPc' = "done"
    /\ exitCode' = <<0>>
    /\ UNCHANGED <<bridgeVars, startupErr, dry_run, argRepo, repos, idx, pc, localVars, result,
                   outcome, prCalls, raised>>

\* ------------------------------------------------- analyze_and_optimize
cur == repos[idx]

\* `?` on an Err: analyze_and_optimize returns the error
Fail(stage) ==
    /\ result' = "Err"
    /\ raised' = [raised EXCEPT ![cur] = stage]
    /\ pc' = "ret"

\* detect_tech_stack(..).await.unwrap_or(<no ecosystem>): the error is noted
\* and the pipeline carries on
Detect_orDefault ==
    /\ pc = "detect"
    /\ \/ \E ts \in TechStack :
            /\ tech_stack' = <<ts>>
            /\ pc' = "rust"
            /\ UNCHANGED <<result, raised>>
       \/ /\ tech_stack' = << [has_rust |-> FALSE, has_python |-> FALSE,
                               has_javascript |-> FALSE, has_docker |-> FALSE,
                               has_kubernetes |-> FALSE] >>
          /\ raised' = [raised EXCEPT ![cur] = "detect"]
          /\ pc' = "rust"
          /\ UNCHANGED result
    /\ UNCHANGED <<mainVars, analysis_results, optimizations, outcome, prCalls>>

\* let tech_stack = analyzers::detect_tech_stack(owner, repo).await?
Detect ==
    /\ pc = "detect"
    /\ \/ \E ts \in TechStack :
            /\ tech_stack' = <<ts>>
            /\ pc' = "rust"
            /\ UNCHANGED <<result, raised>>
       \/ /\ Fail("detect")
          /\ UNCHANGED tech_stack
    /\ UNCHANGED <<mainVars, analysis_results, optimizations, outcome, prCalls>>

RunsRust_always(ts) == TRUE

RunsRust(ts) == ts.has_rust
RunsPython(ts) == ts.has_python
RunsDocker(ts) == ts.has_docker

\* if tech_stack.has_rust { let result = rust_analyzer::analyze(..).await?; push }
RunRust ==
    /\ pc = "rust"
    /\ \/ /\ RunsRust(tech_stack[1])
          /\ analysis_results' = Append(analysis_results, rust_analyzer_analyze)
          /\ pc' = "python"
          /\ UNCHANGED <<result, raised>>
       \/ /\ RunsRust(tech_stack[1])
          /\ Fail("rust")
          /\ UNCHANGED analysis_results
       \/ /\ ~RunsRust(tech_stack[1])
          /\ pc' = "python"
          /\ UNCHANGED <<analysis_results, result, raised>>
    /\ UNCHANGED <<mainVars, tech_stack, optimizations, outcome, prCalls>>

\* the Python result inserted at the front of analysis_results
RunPython_front ==
    /\ pc = "python"
    /\ \/ /\ RunsPython(tech_stack[1])
          /\ analysis_results' = <<python_analyzer_analyze>> \o analysis_results
          /\ pc' = "docker"
          /\ UNCHANGED <<result, raised>>
       \/ /\ RunsPython(tech_stack[1])
          /\ Fail("python")
          /\ UNCHANGED analysis_results
       \/ /\ ~RunsPython(tech_stack[1])
          /\ pc' = "docker"
          /\ UNCHANGED <<analysis_results, result, raised>>
    /\ UNCHANGED <<mainVars, tech_stack, optimizations, outcome, prCalls>>

\* if tech_stack.has_python { let result = python_analyzer::analyze(..).await?; push }
RunPython ==
    /\ pc = "python"
    /\ \/ /\ RunsPython(tech_stack[1])
          /\ analysis_results' = Append(analysis_results, python_analyzer_analyze)
          /\ pc' = "docker"
          /\ UNCHANGED <<result, raised>>
       \/ /\ RunsPython(tech_stack[1])
          /\ Fail("python")
          /\ UNCHANGED analysis_results
       \/ /\ ~RunsPython(tech_stack[1])
          /\ pc' = "docker"
          /\ UNCHANGED <<analysis_results, result, raised>>
    /\ UNCHANGED <<mainVars, tech_stack, optimizations, outcome, prCalls>>

\* if tech_stack.has_docker { let result = docker_analyzer::analyze(..).await?; push }
RunDocker ==
    /\ pc = "docker"
    /\ \/ /\ RunsDocker(tech_stack[1])
          /\ analysis_results' = Append(analysis_results, docker_analyzer_analyze)
          /\ pc' = "synth"
          /\ UNCHANGED <<result, raised>>
       \/ /\ RunsDocker(tech_stack[1])
          /\ Fail("docker")
          /\ UNCHANGED analysis_results
       \/ /\ ~RunsDocker(tech_stack[1])
          /\ pc' = "synth"
          /\ UNCHANGED <<analysis_results, result, raised>>
    /\ UNCHANGED <<mainVars, tech_stack, optimizations, outcome, prCalls>>

\* let optimizations = optimizers::generate_optimizations(&analysis_results).await?
Synthesize ==
    /\ pc = "synth"
    /\ optimizations' = generate_optimizations(analysis_results)
    /\ pc' = "submit"
    /\ UNCHANGED <<mainVars, tech_stack, analysis_results, result, outcome,
                   prCalls, raised>>

\* if !dry_run && !optimizations.is_empty()
CallsProvider_ignoreDryRun(dry, opts) == opts # <<>>

CallsProvider_moreThanOne(dry, opts) == ~dry /\ Len(opts) > 1

CallsProvider_ignoreEmpty(dry, opts) == ~dry

CallsProvider(dry, opts) == ~dry /\ opts # <<>>

\* the submission step, then Ok(())
Submit ==
    /\ pc = "submit"
    /\ \/ /\ CallsProvider(dry_run, optimizations)
          /\ prCalls' = [prCalls EXCEPT ![cur] = @ + 1]
          /\ \/ /\ result' = "Ok"
                /\ pc' = "ret"
                /\ UNCHANGED raised
             \/ Fail("submit")
       \/ /\ ~CallsProvider(dry_run, optimizations)
          /\ result' = "Ok"
          /\ pc' = "ret"
          /\ UNCHANGED <<prCalls, raised>>
    /\ UNCHANGED <<mainVars, localVars, outcome>>

\* the call written as analyze_and_optimize(..).await? : an Err leaves main
ReturnToMain_propagate ==
    /\ mainPc = "call"
    /\ pc = "ret"
    /\ outcome' = [outcome EXCEPT ![cur] = IF result = "Ok" THEN "Succeeded" ELSE "Failed"]
    /\ mainPc' = IF result = "Ok" THEN "loop" ELSE "fatal"
    /\ exitCode' = IF result = "Ok" THEN exitCode ELSE <<1>>
    /\ pc' = "idle"
    /\ result' = "none"
    /\ tech_stack' = <<>>
    /\ analysis_results' = <<>>
    /\ optimizations' = <<>>
    /\ UNCHANGED <<bridgeVars, startupErr, dry_run, argRepo, repos, idx, prCalls, raised>>

\* the Err arm puts the repository back to be tried again
ReturnToMain_retry ==
    /\ mainPc = "call"
    /\ pc = "ret"
    /\ outcome' = [outcome EXCEPT ![cur] = IF result = "Ok" THEN "Succeeded" ELSE "Pending"]
    /\ raised' = [raised EXCEPT ![cur] = "none"]
    /\ idx' = IF result = "Ok" THEN idx ELSE idx - 1
    /\ mainPc' = "loop"
    /\ pc' = "idle"
    /\ result' = "none"
    /\ tech_stack' = <<>>
    /\ analysis_results' = <<>>
    /\ optimizations' = <<>>
    /\ UNCHANGED <<bridgeVars, startupErr, dry_run, argRepo, repos, exitCode, prCalls>>

\* match analyze_and_optimize(..).await { Ok(()) => info!(..), Err(e) => error!(..) }
ReturnToMain ==
    /\ mainPc = "call"
    /\ pc = "ret"
    /\ outcome' = [outcome EXCEPT ![cur] = IF result = "Ok" THEN "Succeeded" ELSE "Failed"]
    /\ mainPc' = "loop"
    /\ pc' = "idle"
    /\ result' = "none"
    /\ tech_stack' = <<>>
    /\ analysis_results' = <<>>
    /\ optimizations' = <<>>
    /\ UNCHANGED <<bridgeVars, startupErr, dry_run, argRepo, repos, idx, exitCode, prCalls, raised>>

Next ==
    \/ NewClient
    \/ GetRepos
    \/ LoopNext
    \/ LoopExit
    \/ Detect
    \/ RunRust
    \/ RunPython
    \/ RunDocker
    \/ Synthesize
    \/ Submit
    \/ ReturnToMain

Spec == Init /\ [][Next]_vars

\* main is the only task of the runtime and every awaited call returns, so a
\* step that is possible is eventually taken
SpecFair == Spec /\ WF_vars(Next)

\* SIGINT while main runs: no handler is installed, the process is terminated
\* where it stands
Cancel ==
    /\ mainPc \in {"new", "repos", "loop", "call"}
    /\ mainPc' = "killed"
    /\ exitCode' = <<130>>
    /\ UNCHANGED <<bridgeVars, startupErr, dry_run, argRepo, repos, idx, pc, localVars,
                   result, outcome, prCalls, raised>>

NextCancel ==
    \/ Next
    \/ Cancel

SpecCancel == Init /\ [][NextCancel]_vars

\* ------------------------------------ the synthesizer and the submission
\* ------------------------------------ step on their own, over all inputs
BoundedSeq(S, n) == UNION {[1..k -> S] : k \in 0..n}

OptimizationKinds ==
    {python_optimizer_generate_optimizations[1],
     python_optimizer_generate_optimizations[2],
     rust_optimizer_generate_optimizations[1],
     generate_redis_caching[1]}

InCall(at) ==
    /\ mainPc = "call"
    /\ dry_run \in BOOLEAN
    /\ argRepo = TRUE
    /\ repos = <<1>>
    /\ idx = 1
    /\ exitCode = <<>>
    /\ pc = at
    /\ tech_stack = <<>>
    /\ result = "none"
    /\ outcome = <<"Pending">>
    /\ prCalls = <<0>>
    /\ raised = <<"none">>
    /\ startupErr = "none"
    /\ py_call = NoCall
    /\ py_ret = <<>>

\* generate_optimizations called on any AnalysisResult sequence
InitSynth ==
    /\ InCall("synth")
    /\ analysis_results \in BoundedSeq(AnalysisResult, MaxResults)
    /\ optimizations = <<>>

SpecSynth == InitSynth /\ [][Synthesize]_vars

\* the submission step entered with any Optimization sequence
InitSubmit ==
    /\ InCall("submit")
    /\ analysis_results = <<>>
    /\ optimizations \in BoundedSeq(OptimizationKinds, MaxOpts)

SpecSubmit == InitSubmit /\ [][Submit]_vars

\* ------------------------------------------- rust-ai-bridge (src/lib.rs)
\* f32 values are modelled by the non-negative integers an f32 holds
\* exactly; every arithmetic operation rounds its exact result to the
\* nearest f32, ties to even.
F32MantissaBits == 24

RECURSIVE Pow2(_)
Pow2(k) == IF k = 0 THEN 1 ELSE 2 * Pow2(k - 1)

\* the spacing of f32 values at n
RECURSIVE Ulp(_, _)
Ulp(n, q) == IF n < Pow2(F32MantissaBits) * q THEN q ELSE Ulp(n, 2 * q)

RoundF32(n) ==
    LET q == Ulp(n, 1)
        m == n \div q
        rem == n - m * q
    IN  IF rem = 0 THEN n
        ELSE IF 2 * rem < q THEN m * q
        ELSE IF 2 * rem > q THEN (m + 1) * q
        ELSE IF m % 2 = 0 THEN m * q ELSE (m + 1) * q

F32Mul(x, y) == RoundF32(x * y)
F32Add(x, y) == RoundF32(x + y)

PyOk(v) == [kind |-> "Ok", val |-> v]
PyErr == [kind |-> "Err", val |-> <<>>]
Panic == [kind |-> "Panic", val |-> <<>>]

\* .map(|&x| x * 2.0) : the bias forgotten
fast_inference_rust_noBias(input) ==
    PyOk([i \in 1..Len(input) |-> F32Mul(input[i], 2)])

\* input.iter().map(|&x| x * 2.0 + 1.0).collect()
fast_inference_rust(input) ==
    PyOk([i \in 1..Len(input) |-> F32Add(F32Mul(input[i], 2), 1)])

\* a.into_iter().flatten().collect()
RECURSIVE Flatten(_)
Flatten(m) == IF m = <<>> THEN <<>> ELSE Head(m) \o Flatten(Tail(m))

\* Array2::from_shape_vec((rows, cols), flat): Err unless rows * cols elements
ShapeOk(rows, cols, flat) == Len(flat) = rows * cols

\* the accumulator overwritten by each product instead of added to
RECURSIVE Dot_noAccumulate(_, _, _, _, _, _, _, _)
Dot_noAccumulate(fa, fb, i, j, n, p, k, acc) ==
    IF k > n THEN acc
    ELSE Dot_noAccumulate(fa, fb, i, j, n, p, k + 1,
                          F32Mul(fa[(i - 1) * n + k], fb[(k - 1) * p + j]))

\* element [i][j] of array_a.dot(&array_b) over the row-major buffers; the
\* products are accumulated in index order
RECURSIVE Dot(_, _, _, _, _, _, _, _)
Dot(fa, fb, i, j, n, p, k, acc) ==
    IF k > n THEN acc
    ELSE Dot(fa, fb, i, j, n, p, k + 1,
             F32Add(acc, F32Mul(fa[(i - 1) * n + k], fb[(k - 1) * p + j])))

fast_matrix_mult(a, b) ==
    IF a = <<>> \/ b = <<>> THEN Panic
    ELSE LET rows_a == Len(a)
             cols_a == Len(a[1])
             cols_b == Len(b[1])
             flat_a == Flatten(a)
             flat_b == Flatten(b)
         IN  IF ~ShapeOk(rows_a, cols_a, flat_a) THEN PyErr
             ELSE IF ~ShapeOk(cols_a, cols_b, flat_b) THEN PyErr
             ELSE PyOk([i \in 1..rows_a |->
                          [j \in 1..cols_b |->
                              Dot(flat_a, flat_b, i, j, cols_a, cols_b, 1, 0)]])

\* the values the arguments are drawn from
VecValues == {0, 1, 2, 3, 8388607, 8388608}
MatValues == {1, 4096}

\* a ranges over all matrices of these values, b over those with at most
\* one large entry
Matrices(r, c) == [1..r -> [1..c -> MatValues]]

MatricesOneLarge(r, c) ==
    {[i \in 1..r |-> [j \in 1..c |-> IF <<i, j>> = pos THEN 4096 ELSE 1]] :
        pos \in (0..r) \X (0..c)}

pipelineVars == <<mainPc, dry_run, argRepo, repos, idx, exitCode, pc, tech_stack,
                  analysis_results, optimizations, result, outcome, prCalls, raised,
                  startupErr>>

InitBridge ==
    /\ mainPc = "new"
    /\ dry_run = FALSE
    /\ argRepo = FALSE
    /\ repos = <<>>
    /\ idx = 0
    /\ exitCode = <<>>
    /\ pc = "idle"
    /\ tech_stack = <<>>
    /\ analysis_results = <<>>
    /\ optimizations = <<>>
    /\ result = "none"
    /\ outcome = <<>>
    /\ prCalls = <<>>
    /\ raised = <<>>
    /\ startupErr = "none"
    /\ \/ \E v \in BoundedSeq(VecValues, MaxVec) :
             py_call = [fn |-> "fast_inference_rust", a |-> v, b |-> <<>>]
       \/ \E r, n, p \in 1..MaxDim :
             \E x \in Matrices(r, n), y \in MatricesOneLarge(n, p) :
                 py_call = [fn |-> "fast_matrix_mult", a |-> x, b |-> y]
    /\ py_ret = <<>>

FastInference ==
    /\ py_call.fn = "fast_inference_rust"
    /\ py_ret = <<>>
    /\ py_ret' = <<fast_inference_rust(py_call.a)>>
    /\ UNCHANGED <<pipelineVars, py_call>>

FastMatrixMult ==
    /\ py_call.fn = "fast_matrix_mult"
    /\ py_ret = <<>>
    /\ py_ret' = <<fast_matrix_mult(py_call.a, py_call.b)>>
    /\ UNCHANGED <<pipelineVars, py_call>>

NextBridge ==
    \/ FastInference
    \/ FastMatrixMult

SpecBridge == InitBridge /\ [][NextBridge]_vars

\* ------------------------------------------------------------- properties
Repos == 1..Len(repos)

Tags(results) == {results[i].tech_stack : i \in 1..Len(results)}
Categories(opts) == {opts[i].category : i \in 1..Len(opts)}

\* C1: batch isolation.  Every repository the loop has passed is reported
\* Failed exactly when its own pipeline returned an error and Succeeded
\* otherwise, whatever happened to the other repositories; when main
\* finishes, every repository of the list has been processed; a
\* repository-level error never terminates main.
C1_BatchIsolation ==
    /\ \A r \in Repos :
          (r < idx \/ mainPc = "done") =>
              outcome[r] = IF raised[r] = "none" THEN "Succeeded" ELSE "Failed"
    /\ mainPc = "done" => idx = Len(repos)
    /\ mainPc = "fatal" => idx = 0

C1_Witness ==
    /\ mainPc = "done"
    /\ Len(repos) = 3
    /\ raised = <<"none", "detect", "none">>
    /\ outcome = <<"Succeeded", "Failed", "Succeeded">>

\* C2: partial-failure isolation.  Analyzer dispatch makes the pipeline
\* return an error only when every selected analyzer failed: a pipeline that
\* returned an analyzer's error has collected no successful AnalysisResult.
AnalyzerStages == {"rust", "python", "docker"}

C2_PartialFailureIsolation ==
    (pc = "ret" /\ raised[cur] \in AnalyzerStages) => analysis_results = <<>>

\* C3: dry-run purity.  With dry_run set, create_optimization_pr has been
\* invoked for no repository, at every point of the batch run.
C3_DryRunPurity ==
    dry_run => \A r \in Repos : prCalls[r] = 0

C3_Witness ==
    /\ dry_run
    /\ idx = 2
    /\ pc = "ret"
    /\ result = "Ok"
    /\ Len(optimizations) = 4

\* C4: exit status.  When the batch has finished, the exit status is zero
\* exactly when every repository succeeded.
C4_ExitStatus ==
    mainPc = "done" =>
        (exitCode = <<0>> <=> \A r \in Repos : outcome[r] = "Succeeded")

\* C5: live-mode submission count.  With dry_run unset, no repository gets
\* more than one create_optimization_pr call, and a repository whose
\* detection, analyzers and synthesis all succeeded has got exactly one by
\* the time its pipeline returns.
C5_LiveOnePR ==
    ~dry_run =>
        \A r \in Repos :
            /\ prCalls[r] <= 1
            /\ ((r < idx \/ (r = idx /\ pc \in {"ret", "idle"}))
                    /\ raised[r] \in {"none", "submit"})
                   => prCalls[r] = 1

C5_Witness ==
    /\ ~dry_run
    /\ mainPc = "done"
    /\ Len(repos) = 2
    /\ prCalls = <<1, 1>>
    /\ outcome = <<"Succeeded", "Succeeded">>

\* C6: ecosystem gating.  For the detected TechStack, a cleared has_rust
\* flag means no "rust"-tagged AnalysisResult and no "Rust LTO"
\* optimization; a cleared has_python flag means no "python"-tagged result
\* and no Python optimization; a cleared has_docker flag means no
\* "docker"-tagged result.
C6_EcosystemGating ==
    tech_stack # <<>> =>
        /\ ~tech_stack[1].has_rust =>
              /\ "rust" \notin Tags(analysis_results)
              /\ "Rust LTO" \notin Categories(optimizations)
        /\ ~tech_stack[1].has_python =>
              /\ "python" \notin Tags(analysis_results)
              /\ Categories(optimizations) \cap {"FastAPI Multi-Worker", "PyTorch JIT"} = {}
        /\ ~tech_stack[1].has_docker => "docker" \notin Tags(analysis_results)

C6_Witness ==
    /\ pc = "submit"
    /\ tech_stack # <<>>
    /\ ~tech_stack[1].has_rust
    /\ tech_stack[1].has_python
    /\ tech_stack[1].has_docker
    /\ Len(analysis_results) = 2
    /\ Len(optimizations) = 3

\* C7: the dependency analyzer always runs.  The AnalysisResult sequence
\* handed to synthesis contains the "general"-tagged Dependency Management
\* result.
C7_DependencyAlwaysRuns ==
    pc \in {"synth", "submit"} =>
        \E i \in 1..Len(analysis_results) :
            analysis_results[i] = dependency_analyzer_analyze

\* C8: synthesis output order and content.  The output is, for each input
\* result in input order, the two Python optimizations for a "python" tag
\* and the Rust LTO optimization for a "rust" tag, followed by Redis Caching
\* as the last element, which occurs exactly once.
Width(r) ==
    IF r.tech_stack = "python" THEN 2 ELSE IF r.tech_stack = "rust" THEN 1 ELSE 0

RECURSIVE Offset(_, _)
Offset(results, k) ==
    IF k = 0 THEN 0 ELSE Offset(results, k - 1) + Width(results[k])

Is(opt, c, i) == opt.category = c /\ opt.impact = i /\ opt.file_changes = <<>>

C8_SynthesisOrder ==
    pc = "submit" =>
        /\ Len(optimizations) = Offset(analysis_results, Len(analysis_results)) + 1
        /\ \A k \in 1..Len(analysis_results) :
              /\ analysis_results[k].tech_stack = "python" =>
                    /\ Is(optimizations[Offset(analysis_results, k - 1) + 1],
                          "FastAPI Multi-Worker", "High")
                    /\ Is(optimizations[Offset(analysis_results, k - 1) + 2],
                          "PyTorch JIT", "High")
              /\ analysis_results[k].tech_stack = "rust" =>
                    Is(optimizations[Offset(analysis_results, k - 1) + 1],
                       "Rust LTO", "Medium")
        /\ Is(optimizations[Len(optimizations)], "Redis Caching", "High")
        /\ Cardinality({i \in 1..Len(optimizations) :
                            optimizations[i].category = "Redis Caching"}) = 1

C8_Witness ==
    /\ pc = "submit"
    /\ analysis_results =
          <<python_analyzer_analyze, docker_analyzer_analyze, rust_analyzer_analyze>>
    /\ Len(optimizations) = 4

\* C9: empty-optimization no-op.  A submission step entered with an empty
\* optimization sequence returns Ok without calling create_optimization_pr,
\* with dry_run set or unset.
C9_EmptyNoOp ==
    (pc \in {"submit", "ret"} /\ optimizations = <<>>) =>
        /\ prCalls[cur] = 0
        /\ pc = "ret" => result = "Ok"

C9_Witness ==
    /\ pc = "ret"
    /\ optimizations = <<>>
    /\ ~dry_run
    /\ result = "Ok"

\* C12: startup errors are fatal before any work.  Once GitHubClient::new
\* or the repository listing has returned Err, the process has terminated
\* with an error status and no repository has been taken from the list: no
\* detection, analyzer, synthesis or PR-creation step has run.
NoWorkDone ==
    /\ idx = 0
    /\ pc = "idle"
    /\ tech_stack = <<>>
    /\ analysis_results = <<>>
    /\ optimizations = <<>>
    /\ \A r \in Repos : outcome[r] = "Pending" /\ prCalls[r] = 0 /\ raised[r] = "none"

C12_StartupFatal ==
    startupErr # "none" => (mainPc = "fatal" /\ exitCode = <<1>> /\ NoWorkDone)

C12_Witness ==
    /\ startupErr = "client"
    /\ mainPc = "fatal"
    /\ exitCode = <<1>>

\* C11: unrecognized ecosystem tags are silently ignored.  Synthesis returns
\* without error, its output holds two optimizations per "python" result,
\* one per "rust" result and the cache optimization, and removing any result
\* whose tag is neither "python" nor "rust" from the input gives the same
\* output.
RemoveAt(seq, k) == SubSeq(seq, 1, k - 1) \o SubSeq(seq, k + 1, Len(seq))

CountTag(results, t) == Cardinality({i \in 1..Len(results) : results[i].tech_stack = t})

C11_UnrecognizedIgnored ==
    pc = "submit" =>
        /\ result # "Err"
        /\ Len(optimizations) =
              2 * CountTag(analysis_results, "python")
                + CountTag(analysis_results, "rust") + 1
        /\ \A k \in 1..Len(analysis_results) :
              analysis_results[k].tech_stack \notin {"python", "rust"} =>
                  optimizations = generate_optimizations(RemoveAt(analysis_results, k))

C11_Witness ==
    /\ pc = "submit"
    /\ analysis_results =
          <<docker_analyzer_analyze, python_analyzer_analyze, dependency_analyzer_analyze>>
    /\ Len(optimizations) = 3

\* C17: stable analyzer result order.  The collected AnalysisResult sequence
\* is a subsequence of the fixed analyzer order Rust, Python, Docker: every
\* tag is one of the three and the positions in that order strictly
\* increase along the sequence, so no tag occurs twice.
AnalyzerOrder == <<"rust", "python", "docker">>

OrderIndex(t) == CHOOSE k \in 1..Len(AnalyzerOrder) : AnalyzerOrder[k] = t

C17_StableOrder ==
    /\ \A i \in 1..Len(analysis_results) :
          \E k \in 1..Len(AnalyzerOrder) : AnalyzerOrder[k] = analysis_results[i].tech_stack
    /\ \A i, j \in 1..Len(analysis_results) :
          i < j => OrderIndex(analysis_results[i].tech_stack)
                      < OrderIndex(analysis_results[j].tech_stack)

C17_Witness ==
    /\ pc = "synth"
    /\ Len(analysis_results) = 3

\* C19: bounded concurrency with FIFO queuing.  At most one repository (the
\* ceiling of the sequential loop) is in flight at any moment; a repository
\* is started only when every repository before it in the list has reached
\* its outcome; when main finishes no repository has been left out.
InFlight == {r \in Repos : r <= idx /\ outcome[r] = "Pending"}

C19_BoundedFIFO ==
    /\ Cardinality(InFlight) <= 1
    /\ \A r \in Repos : r < idx => outcome[r] # "Pending"
    /\ idx <= Len(repos)
    /\ mainPc = "done" => \A r \in Repos : outcome[r] # "Pending"

C19_Witness ==
    /\ Len(repos) = 3
    /\ idx = 2
    /\ pc = "python"
    /\ InFlight = {2}
    /\ outcome[3] = "Pending"

\* C20: a synthesized sequence is never empty and ends with the single Redis
\* Caching optimization, so in live mode every pipeline that reaches the
\* submission step calls create_optimization_pr, also for a repository
\* with no ecosystem flag and no AnalysisResult.
ReachedSubmission ==
    \/ pc = "submit"
    \/ pc = "ret" /\ raised[cur] \in {"none", "submit"}

C20_NeverEmpty ==
    ReachedSubmission =>
        /\ optimizations # <<>>
        /\ optimizations[Len(optimizations)] = generate_redis_caching[1]
        /\ Cardinality({i \in 1..Len(optimizations) :
                            optimizations[i].category = "Redis Caching"}) = 1
        /\ (pc = "ret" /\ ~dry_run) => prCalls[cur] = 1

C20_Witness ==
    /\ ~dry_run
    /\ pc = "ret"
    /\ tech_stack = << [has_rust |-> FALSE, has_python |-> FALSE, has_javascript |-> FALSE,
                        has_docker |-> FALSE, has_kubernetes |-> FALSE] >>
    /\ analysis_results = <<>>
    /\ Len(optimizations) = 1
    /\ prCalls[cur] = 1

\* C15: per-repository stage ordering.  The position of a pipeline moves
\* only from a stage to the next one (detect, rust, python, docker, synth,
\* submit) after that stage succeeded, or to the return with an error;
\* create_optimization_pr is called only at the submission stage, after
\* detection, every selected analyzer and synthesis have succeeded; once a
\* repository has its outcome, its outcome, PR calls and error never change
\* and no stage runs for it.
Rank(p) ==
    CASE p = "detect" -> 1 [] p = "rust" -> 2 [] p = "python" -> 3
      [] p = "docker" -> 4 [] p = "synth" -> 5 [] p = "submit" -> 6
      [] OTHER -> 0

SelectedTags(ts) ==
    (IF ts.has_rust THEN {"rust"} ELSE {})
      \cup (IF ts.has_python THEN {"python"} ELSE {})
      \cup (IF ts.has_docker THEN {"docker"} ELSE {})

StageStep ==
    pc' # pc =>
        \/ pc = "idle" /\ pc' = "detect"
        \/ pc = "ret" /\ pc' = "idle"
        \/ Rank(pc) > 0 /\ pc' = "ret" /\ result' = "Err" /\ raised'[cur] = pc
        \/ pc = "submit" /\ pc' = "ret" /\ result' = "Ok" /\ raised'[cur] = "none"
        \/ /\ Rank(pc) > 0
           /\ Rank(pc') = Rank(pc) + 1
           /\ idx' = idx
           /\ result' = "none"
           /\ raised'[cur] = "none"

PRAfterAllStages ==
    \A r \in Repos :
        prCalls'[r] # prCalls[r] =>
            /\ r = idx
            /\ pc = "submit"
            /\ raised[r] = "none"
            /\ tech_stack # <<>>
            /\ Tags(analysis_results) = SelectedTags(tech_stack[1])
            /\ optimizations = generate_optimizations(analysis_results)

NoStageAfterOutcome ==
    \A r \in Repos :
        outcome[r] # "Pending" =>
            /\ outcome'[r] = outcome[r]
            /\ prCalls'[r] = prCalls[r]
            /\ raised'[r] = raised[r]
            /\ idx' = r => pc' = "idle"

C15_StageOrder ==
    [][StageStep /\ PRAfterAllStages /\ NoStageAfterOutcome]_vars

C15_Witness ==
    /\ pc = "ret"
    /\ result = "Ok"
    /\ prCalls[cur] = 1
    /\ Len(analysis_results) = 3

\* C16: termination without retry.  main eventually finishes; every
\* repository of the list eventually has an outcome, Succeeded or Failed;
\* the iterator only moves forward one repository at a time and an outcome,
\* once given, never changes.
C16_Termination ==
    /\ <>(mainPc \in {"done", "fatal"})
    /\ \A r \in 1..MaxRepos :
          (r \in Repos) ~> (r \in Repos /\ outcome[r] \in {"Succeeded", "Failed"})
    /\ [][/\ idx' \in {idx, idx + 1}
          /\ \A r \in Repos : outcome[r] # "Pending" => outcome'[r] = outcome[r]]_vars

C16_Witness ==
    /\ mainPc = "done"
    /\ Len(repos) = 3
    /\ outcome = <<"Failed", "Succeeded", "Failed">>

\* C18: cancellation safety.  Once the process has been cancelled, every
\* repository that had been dispatched has finished or failed: none is left
\* without an outcome.
C18_CancellationSafety ==
    mainPc = "killed" => \A r \in Repos : r <= idx => outcome[r] # "Pending"

\* C13 as stated: fast_inference_rust returns Ok with a vector of the same
\* length whose i-th element equals 2*input[i] + 1.
Returned(f) == py_call.fn = f /\ py_ret # <<>>

C13_ElementwiseExact ==
    Returned("fast_inference_rust") =>
        /\ py_ret[1].kind = "Ok"
        /\ Len(py_ret[1].val) = Len(py_call.a)
        /\ \A i \in 1..Len(py_call.a) : py_ret[1].val[i] = 2 * py_call.a[i] + 1

\* C13 amended: fast_inference_rust returns Ok with a vector of the same
\* length whose i-th element is 2*input[i] + 1 rounded to f32: it equals
\* 2*input[i] + 1 when that is at most 2^24, and otherwise is an f32 at most
\* half a spacing away from it.
C13_ElementwiseRounded ==
    Returned("fast_inference_rust") =>
        /\ py_ret[1].kind = "Ok"
        /\ Len(py_ret[1].val) = Len(py_call.a)
        /\ \A i \in 1..Len(py_call.a) :
              LET exact == 2 * py_call.a[i] + 1
                  got == py_ret[1].val[i]
                  diff == IF got >= exact THEN got - exact ELSE exact - got
              IN  /\ exact <= Pow2(F32MantissaBits) => got = exact
                  /\ got % Ulp(got, 1) = 0
                  /\ 2 * diff <= Ulp(exact, 1)

C13_Witness ==
    /\ Returned("fast_inference_rust")
    /\ py_call.a = <<1, 2, 3>>
    /\ py_ret[1] = PyOk(<<3, 5, 7>>)

\* C14 as stated: for non-empty rectangular a (r x n) and b (n x p),
\* fast_matrix_mult returns Ok with an r x p matrix whose entry [i][j] equals
\* the sum over k of a[i][k]*b[k][j].
RECURSIVE ExactSum(_, _, _, _, _)
ExactSum(a, b, i, j, k) ==
    IF k = 0 THEN 0 ELSE ExactSum(a, b, i, j, k - 1) + a[i][k] * b[k][j]

IsShape(m, r, c) == Len(m) = r /\ \A i \in 1..r : Len(m[i]) = c

C14_ProductExact ==
    Returned("fast_matrix_mult") =>
        /\ py_ret[1].kind = "Ok"
        /\ IsShape(py_ret[1].val, Len(py_call.a), Len(py_call.b[1]))
        /\ \A i \in 1..Len(py_call.a) : \A j \in 1..Len(py_call.b[1]) :
              py_ret[1].val[i][j] = ExactSum(py_call.a, py_call.b, i, j, Len(py_call.b))

\* C14 amended: for non-empty rectangular a (r x n) and b (n x p),
\* fast_matrix_mult returns Ok with an r x p matrix whose entry [i][j] equals
\* the sum over k of a[i][k]*b[k][j] whenever that sum is at most 2^24, so
\* that every product and every partial sum, in any order, is an exact f32.
C14_ProductWhenExact ==
    Returned("fast_matrix_mult") =>
        /\ py_ret[1].kind = "Ok"
        /\ IsShape(py_ret[1].val, Len(py_call.a), Len(py_call.b[1]))
        /\ \A i \in 1..Len(py_call.a) : \A j \in 1..Len(py_call.b[1]) :
              LET exact == ExactSum(py_call.a, py_call.b, i, j, Len(py_call.b))
              IN  exact <= Pow2(F32MantissaBits) => py_ret[1].val[i][j] = exact

C14_Witness ==
    /\ Returned("fast_matrix_mult")
    /\ py_call.a = << <<1, 4096>>, <<4096, 1>> >>
    /\ py_call.b = << <<1, 1>>, <<4096, 1>> >>
    /\ py_ret[1] = PyOk(<< <<16777216, 4097>>, <<8192, 4097>> >>)

\* ------------------------ the synthesizer over any analyzer output
\* AnalysisResult values with any tag, either of two categories and either
\* of two finding lists
AnyAnalysisResult ==
    [category : {"Rust Performance", "Python/AI Performance"},
     findings : {<<>>, <<"Critical">>},
     tech_stack : {"rust", "python", "docker", "general"}]

\* the tags pushed by the three gated analyzer blocks, in their order
DispatchTags(ts) ==
    (IF ts.has_rust THEN <<"rust">> ELSE <<>>)
      \o (IF ts.has_python THEN <<"python">> ELSE <<>>)
      \o (IF ts.has_docker THEN <<"docker">> ELSE <<>>)

\* generate_optimizations entered either with any result sequence, or with
\* the sequence the analyzers of a detected TechStack pushed, whatever
\* category and findings each analyzer returned
InitSynthAny ==
    /\ mainPc = "call"
    /\ dry_run = FALSE
    /\ argRepo = TRUE
    /\ repos = <<1>>
    /\ idx = 1
    /\ exitCode = <<>>
    /\ pc = "synth"
    /\ result = "none"
    /\ outcome = <<"Pending">>
    /\ prCalls = <<0>>
    /\ raised = <<"none">>
    /\ startupErr = "none"
    /\ py_call = NoCall
    /\ py_ret = <<>>
    /\ optimizations = <<>>
    /\ \/ /\ tech_stack = <<>>
          /\ \E k \in 0..MaxResults : analysis_results \in [1..k -> AnyAnalysisResult]
       \/ \E ts \in TechStack :
             /\ tech_stack = <<ts>>
             /\ analysis_results \in
                   {s \in [1..Len(DispatchTags(ts)) -> AnyAnalysisResult] :
                       \A i \in 1..Len(s) : s[i].tech_stack = DispatchTags(ts)[i]}

SpecSynthAny == InitSynthAny /\ [][Synthesize]_vars

\* C21: the synthesized optimizations depend only on the sequence of
\* ecosystem tags: the output for a result sequence is the output for the
\* same sequence with every category and finding list blanked.  For the
\* results of a detected TechStack the output is determined by has_rust and
\* has_python alone, whatever has_docker, has_javascript, has_kubernetes and
\* the analyzers' findings are.
TagsOnly(results) ==
    [i \in 1..Len(results) |->
        [category |-> "", findings |-> <<>>, tech_stack |-> results[i].tech_stack]]

ForFlags(rust, python) ==
    (IF rust THEN rust_optimizer_generate_optimizations ELSE <<>>)
      \o (IF python THEN python_optimizer_generate_optimizations ELSE <<>>)
      \o generate_redis_caching

C21_TagsOnly ==
    pc = "submit" =>
        /\ optimizations = generate_optimizations(TagsOnly(analysis_results))
        /\ tech_stack # <<>> =>
              optimizations = ForFlags(tech_stack[1].has_rust, tech_stack[1].has_python)

C21_Witness ==
    /\ pc = "submit"
    /\ tech_stack = << [has_rust |-> FALSE, has_python |-> TRUE, has_javascript |-> TRUE,
                        has_docker |-> TRUE, has_kubernetes |-> TRUE] >>
    /\ analysis_results[1].category = "Rust Performance"
    /\ analysis_results[1].findings = <<"Critical">>
    /\ Len(optimizations) = 3

TypeOK ==
    /\ mainPc \in {"new", "repos", "loop", "call", "done", "fatal"}
    /\ pc \in {"idle", "detect", "rust", "python", "docker", "synth", "submit", "ret"}
    /\ idx \in 0..(MaxRepos + 1)
    /\ result \in {"none", "Ok", "Err"}
====
